---- MODULE Spec2Model ----
(***************************************************************************)
(* Verification model of the Viva Wallet plugin: the OAuth2 token manager  *)
(* (TokenManager), the session-creation handler (createOrderHandler), the  *)
(* webhook handlers (webhookHandler, verifyWebhookHandler) and the         *)
(* Transactions collection hooks that run inside the document store.       *)
(***************************************************************************)
EXTENDS Integers, Sequences, FiniteSets, TLC

(***************************************************************************)
(* Bounds of the model.                                                    *)
(***************************************************************************)
MaxCallers == 3
MaxRequests == 3
MaxClears == 1
MaxTicks == 2

(***************************************************************************)
(* Program constants of TokenManager (milliseconds / seconds).             *)
(***************************************************************************)
BufferMs == 300000
DefaultExpiresIn == 3600

VARIABLES
  token, tokenExpiry, refreshPromise,  \* fields of TokenManager
  promises,      \* the promises returned by refreshToken(), in creation order,
                 \* each with the number of clearToken() calls made before it
  callers,       \* the getToken() invocations, numbered in call order
  now,           \* Date.now()
  ticks,         \* number of times the clock was advanced
  epoch,         \* number of responses arrived and clearToken() calls so far
  clears,        \* number of clearToken() calls made from outside so far
  cleared        \* clearToken() was called and getToken() has not been called since

VARIABLES
  settings,      \* the viva-settings global
  nodeEnv,       \* process.env.NODE_ENV
  orders,        \* the viva-payment-orders collection; a document's id is its index
  transactions,  \* the viva-transactions collection (without the paymentOrder
                 \* link, which is kept in hs while the document is created)
  hs,            \* the webhookHandler invocations in flight
  resp           \* the response to the latest request; none while one is handled

VARIABLES
  call,          \* the latest direct use of WebhookValidator: its inputs and result
  sent,          \* the delivery the sender delivers until it is acknowledged,
                 \* and the store as it was when it was first delivered
  vs             \* the verifyWebhookHandler invocations that interleave

tokenVars ==
  <<token, tokenExpiry, refreshPromise, promises, callers, now, ticks, epoch, clears,
    cleared>>

hookVars == <<settings, nodeEnv, orders, transactions, hs, resp>>

useVars == <<call, sent, vs>>

vars == <<tokenVars, hookVars, useVars>>

Null == 0
Callers == 1..MaxCallers
TokenValues == {1, 2}
ExpiresInValues == {0, 300, 301}
TickSteps == {1000, 3299000}

\* The idle record of a getToken() invocation that has not been made yet.
IdleCaller == [pc |-> "idle", p |-> Null, ep |-> 0, nul |-> FALSE, res |-> Null]


(***************************************************************************)
(* TokenManager (services/TokenManager.ts)                                 *)
(***************************************************************************)

\* getToken(): "if (this.refreshPromise) return this.refreshPromise".
JoinsInFlightNever(rp) == FALSE
JoinsInFlight(rp) == rp # Null

\* CachedTokenValid with a token expiring exactly at the buffer still valid.
CachedTokenValidInclusive(tok, expiry, t) ==
  /\ tok # Null
  /\ expiry # Null
  /\ expiry >= t + BufferMs

\* getToken() / hasValidToken(): the cached token is still valid with the
\* 5 minute buffer: this.token && this.tokenExpiry && tokenExpiry > now + 5min.
CachedTokenValid(tok, expiry, t) ==
  /\ tok # Null
  /\ expiry # Null
  /\ expiry > t + BufferMs

\* refreshToken(): "const expiresIn = data.expires_in || 3600".
ExpiresIn(expires_in) == IF expires_in = 0 THEN DefaultExpiresIn ELSE expires_in

\* getToken(), the synchronous part of one invocation up to its first await.
\* A call that finds no refresh in flight and no valid cached token runs
\* refreshToken() up to its fetch(): the authorization request is issued and
\* the promise is stored in this.refreshPromise.
GetToken(c) ==
  /\ UNCHANGED <<hookVars, useVars>>
  /\ callers[c].pc = "idle"
  /\ \A d \in 1..(c - 1) : callers[d].pc # "idle"
  /\ IF JoinsInFlight(refreshPromise)
       THEN /\ callers' = [callers EXCEPT ![c] =
                 [pc |-> "waiting", p |-> refreshPromise, ep |-> epoch,
                  nul |-> (token = Null), res |-> Null]]
            /\ UNCHANGED <<refreshPromise, promises>>
       ELSE IF CachedTokenValid(token, tokenExpiry, now)
         THEN /\ callers' = [callers EXCEPT ![c] =
                   [pc |-> "done", p |-> Null, ep |-> epoch,
                    nul |-> FALSE, res |-> token]]
              /\ UNCHANGED <<refreshPromise, promises>>
         ELSE /\ Len(promises) < MaxRequests
              /\ promises' = Append(promises,
                   [state |-> "pending", value |-> Null, ep |-> epoch, owner |-> c,
                    clears |-> clears])
              /\ refreshPromise' = Len(promises) + 1
              /\ callers' = [callers EXCEPT ![c] =
                   [pc |-> "waiting", p |-> Len(promises) + 1, ep |-> epoch,
                    nul |-> (token = Null), res |-> Null]]
  /\ cleared' = FALSE
  /\ UNCHANGED <<token, tokenExpiry, now, ticks, epoch, clears>>

\* The callers awaiting promise p are released with its outcome.
Release(p, outcome) ==
  [c \in Callers |->
     IF callers[c].pc = "waiting" /\ callers[c].p = p
       THEN [callers[c] EXCEPT !.pc = "done", !.res = outcome]
       ELSE callers[c]]

\* RefreshSucceeds with getToken() lacking its finally block.
RefreshSucceedsKeepsHandle(p, access_token, expires_in) ==
  /\ UNCHANGED <<hookVars, useVars>>
  /\ p \in 1..Len(promises)
  /\ promises[p].state = "pending"
  /\ token' = access_token
  /\ tokenExpiry' = now + ExpiresIn(expires_in) * 1000
  /\ promises' = [promises EXCEPT ![p].state = "resolved", ![p].value = access_token]
  /\ callers' = Release(p, access_token)
  /\ epoch' = epoch + 1
  /\ UNCHANGED <<refreshPromise, now, ticks, clears, cleared>>

\* The authorization endpoint answers request p with an access token:
\* refreshToken() stores token and expiry and resolves; the initiating
\* getToken() resumes and its finally block resets this.refreshPromise.
RefreshSucceeds(p, access_token, expires_in) ==
  /\ UNCHANGED <<hookVars, useVars>>
  /\ p \in 1..Len(promises)
  /\ promises[p].state = "pending"
  /\ token' = access_token
  /\ tokenExpiry' = now + ExpiresIn(expires_in) * 1000
  /\ promises' = [promises EXCEPT ![p].state = "resolved", ![p].value = access_token]
  /\ refreshPromise' = Null
  /\ callers' = Release(p, access_token)
  /\ epoch' = epoch + 1
  /\ UNCHANGED <<now, ticks, clears, cleared>>

\* The result of a rejected refresh, as seen by the callers.
AuthError == 0 - 1

\* RefreshFails with the catch block of refreshToken() not calling clearToken().
RefreshFailsKeepsToken(p) ==
  /\ UNCHANGED <<hookVars, useVars>>
  /\ p \in 1..Len(promises)
  /\ promises[p].state = "pending"
  /\ promises' = [promises EXCEPT ![p].state = "rejected", ![p].value = AuthError]
  /\ refreshPromise' = Null
  /\ callers' = Release(p, AuthError)
  /\ epoch' = epoch + 1
  /\ UNCHANGED <<token, tokenExpiry, now, ticks, clears, cleared>>

\* The authorization endpoint rejects request p, is unreachable, or answers
\* without access_token: the catch block of refreshToken() calls clearToken()
\* and rethrows; the initiating getToken() runs its finally block.
RefreshFails(p) ==
  /\ UNCHANGED <<hookVars, useVars>>
  /\ p \in 1..Len(promises)
  /\ promises[p].state = "pending"
  /\ token' = Null
  /\ tokenExpiry' = Null
  /\ promises' = [promises EXCEPT ![p].state = "rejected", ![p].value = AuthError]
  /\ refreshPromise' = Null
  /\ callers' = Release(p, AuthError)
  /\ epoch' = epoch + 1
  /\ UNCHANGED <<now, ticks, clears, cleared>>

\* clearToken(), called from outside the manager.
ClearToken ==
  /\ UNCHANGED <<hookVars, useVars>>
  /\ clears < MaxClears
  /\ clears' = clears + 1
  /\ token' = Null
  /\ tokenExpiry' = Null
  /\ refreshPromise' = Null
  /\ epoch' = epoch + 1
  /\ cleared' = TRUE
  /\ UNCHANGED <<promises, callers, now, ticks>>

\* Date.now() advances.
Tick(d) ==
  /\ UNCHANGED <<hookVars, useVars>>
  /\ ticks < MaxTicks
  /\ ticks' = ticks + 1
  /\ now' = now + d
  /\ UNCHANGED <<token, tokenExpiry, refreshPromise, promises, callers, epoch, clears,
                 cleared>>

TokenInit ==
  /\ token = Null
  /\ tokenExpiry = Null
  /\ refreshPromise = Null
  /\ promises = <<>>
  /\ callers = [c \in Callers |-> IdleCaller]
  /\ now = 0
  /\ ticks = 0
  /\ epoch = 0
  /\ clears = 0
  /\ cleared = FALSE

TokenNext ==
  \/ \E c \in Callers : GetToken(c)
  \/ \E p \in 1..MaxRequests, t \in TokenValues, e \in ExpiresInValues :
       RefreshSucceeds(p, t, e)
  \/ \E p \in 1..MaxRequests : RefreshFails(p)
  \/ ClearToken
  \/ \E d \in TickSteps : Tick(d)

(***************************************************************************)
(* Values of the webhook and session-creation model                        *)
(*                                                                         *)
(* A decimal integer of up to 17 digits is the pair <<hi, lo>> of its      *)
(* digits above and below 10^8; a string of digits is the sequence of its  *)
(* digits.  The JavaScript value undefined is Undefined.  A signature header that is absent (or empty) is the empty tuple; an     *)
(* absent key or delivery identifier is the empty string.                  *)
(***************************************************************************)
Base == 10^8
TwoPow53 == <<90071992, 54740992>>
NoHeader == <<>>
NoKey == ""
NoDeliveryId == ""

\* JSON.parse of an integer literal into a double: integers up to 2^53 are
\* exact; between 2^53 and 2^54 only the even integers exist and an odd one
\* is rounded to the neighbour that is a multiple of 4 (ties to even).
JsonNumber(n) ==
  IF n[1] < TwoPow53[1] \/ (n[1] = TwoPow53[1] /\ n[2] <= TwoPow53[2]) \/ n[2] % 2 = 0
    THEN n
    ELSE IF n[2] % 4 = 1 THEN <<n[1], n[2] - 1>>
         ELSE IF n[2] + 1 = Base THEN <<n[1] + 1, 0>> ELSE <<n[1], n[2] + 1>>

Undefined == "<undefined>"

\* The decimal digits of a natural number below 10^9, without leading zeros.
RECURSIVE Digits(_)
Digits(n) == IF n < 10 THEN <<n>> ELSE Append(Digits(n \div 10), n % 10)

\* The eight decimal digits of a natural number below 10^8.
Digits8(n) == [i \in 1..8 |-> (n \div 10^(8 - i)) % 10]

\* String(x) of a double holding an integer: its decimal digits.
StringOfNumber(x) ==
  IF x[1] = 0 THEN Digits(x[2]) ELSE Digits(x[1]) \o Digits8(x[2])

\* String(x) of a string or of undefined.
String(x) == IF x = Undefined THEN "undefined" ELSE x

\* The order code validation of the PaymentOrders collection: a string of
\* exactly 16 characters, all digits.
OrderCodeValid(val) == Len(val) = 16 /\ \A i \in 1..Len(val) : val[i] \in 0..9

\* The strings of the model that have the shape of a UUID.
UuidStrings ==
  {"550e8400-e29b-41d4-a716-446655440000", "7c9e6679-7425-40de-944b-e07fc1f90ae7"}

\* The transactionId validation of the Transactions collection
\* (String(undefined) is "undefined", which is no UUID).
TransactionIdValid(val) == val \in UuidStrings

\* The options of the statusId select field of the Transactions collection.
StatusIdOptions == {"A", "F", "E"}

\* createHmacSignature(payload, secret, algorithm): an HMAC is determined by,
\* and determines, its three inputs.
CreateHmacSignature(payload, secret, algorithm) == <<algorithm, secret, payload>>

\* timingSafeCompare(a, b) on the lower-cased hex digests: false when the
\* lengths differ, else crypto.timingSafeEqual (which throws when the byte
\* lengths differ; validateHMAC256 / validateHMAC1 catch and return false).
TimingSafeCompare(a, b) == IF Len(a) # Len(b) THEN FALSE ELSE a = b

\* WebhookValidator.validateHMAC256 / validateHMAC1.
ValidateHMAC(rawBody, signature, secret, algorithm) ==
  IF secret = NoKey THEN FALSE
  ELSE TimingSafeCompare(signature, CreateHmacSignature(rawBody, secret, algorithm))

\* validateSignature accepting every delivery.
ValidateSignatureAny(secret, allowUnsigned, rawBody, signature256, signature) == TRUE

\* validateSignature falling back to SHA-1 when the SHA-256 value is wrong.
ValidateSignatureFallback(secret, allowUnsigned, rawBody, signature256, signature) ==
  IF secret = NoKey /\ allowUnsigned THEN TRUE
  ELSE IF secret # NoKey /\ signature256 = NoHeader /\ signature = NoHeader
    THEN allowUnsigned
  ELSE \/ signature256 # NoHeader /\ ValidateHMAC(rawBody, signature256, secret, "sha256")
       \/ signature # NoHeader /\ ValidateHMAC(rawBody, signature, secret, "sha1")

\* validateSignature accepting every delivery when unsigned ones are allowed.
ValidateSignatureSkipsWhenUnsigned(secret, allowUnsigned, rawBody, signature256, signature) ==
  IF allowUnsigned THEN TRUE
  ELSE IF signature256 # NoHeader
    THEN ValidateHMAC(rawBody, signature256, secret, "sha256")
  ELSE IF signature # NoHeader
    THEN ValidateHMAC(rawBody, signature, secret, "sha1")
  ELSE FALSE

\* WebhookValidator.validateSignature with this.webhookSecret = secret and
\* this.allowUnsigned = allowUnsigned.
ValidateSignature(secret, allowUnsigned, rawBody, signature256, signature) ==
  IF secret = NoKey /\ allowUnsigned THEN TRUE
  ELSE IF secret # NoKey /\ signature256 = NoHeader /\ signature = NoHeader
    THEN allowUnsigned
  ELSE IF signature256 # NoHeader
    THEN ValidateHMAC(rawBody, signature256, secret, "sha256")
  ELSE IF signature # NoHeader
    THEN ValidateHMAC(rawBody, signature, secret, "sha1")
  ELSE FALSE

\* The constructor of WebhookValidator: this.allowUnsigned is
\* options?.allowUnsigned || process.env.NODE_ENV === 'development'; option is
\* "true", "false" or "none" (no options passed).
AllowUnsignedWith(option, env) == option = "true" \/ env = "development"

\* new WebhookValidator(settings.webhookKey): no options are passed, so
\* allowUnsigned is (process.env.NODE_ENV === 'development').
AllowUnsigned(env) == AllowUnsignedWith("none", env)

\* GetCheckoutUrl with the live domain in every environment.
GetCheckoutUrlOneDomain(environment, orderCode) ==
  <<"https://www.vivapayments.com", "/web/checkout?ref=", orderCode>>

\* VivaWalletService.getCheckoutUrl(orderCode): the parts of the template
\* `${domain}/web/checkout?ref=${orderCode}`, in order.
GetCheckoutUrl(environment, orderCode) ==
  <<IF environment = "demo" THEN "https://demo.vivapayments.com"
                             ELSE "https://www.vivapayments.com",
    "/web/checkout?ref=", orderCode>>

(***************************************************************************)
(* The document store, and the Transactions collection's rules and hooks   *)
(***************************************************************************)

Handlers == {1, 2}

\* FindOrder with the where clause dropped: the first document, if any.
FindOrderAny(code) ==
  IF Len(orders) > 0 THEN 1 ELSE 0

\* payload.find on viva-payment-orders, where orderCode equals code, limit 1:
\* the id of the matching document, or 0.
FindOrder(code) ==
  IF \E i \in 1..Len(orders) : orders[i].orderCode = code
    THEN CHOOSE i \in 1..Len(orders) : orders[i].orderCode = code
    ELSE 0

\* DeliverySeen with the where clause dropped.
DeliverySeenAny(deliveryId) == transactions # {}

\* payload.find on viva-transactions, where vivaDeliveryId equals deliveryId:
\* totalDocs > 0.
DeliverySeen(deliveryId) ==
  \E t \in transactions : t.vivaDeliveryId = deliveryId

\* TransactionData with processPaymentFailed passing the payload's StatusId on.
TransactionDataPayloadStatus(d) ==
  [transactionId |-> String(d.body.TransactionId),
   orderCode |-> StringOfNumber(JsonNumber(d.body.OrderCode)),
   eventTypeId |-> d.body.EventTypeId,
   statusId |-> d.body.StatusId,
   vivaDeliveryId |-> d.deliveryId]

\* The document that processPaymentSuccess / processPaymentFailed hand to
\* payload.create for the event of delivery d.
TransactionData(d) ==
  [transactionId |-> String(d.body.TransactionId),
   orderCode |-> StringOfNumber(JsonNumber(d.body.OrderCode)),
   eventTypeId |-> d.body.EventTypeId,
   statusId |-> IF d.body.EventTypeId = 1798 THEN "F" ELSE d.body.StatusId,
   vivaDeliveryId |-> d.deliveryId]

\* Field validation of the Transactions collection on create: transactionId
\* is a UUID, statusId is required and one of the select options (orderCode,
\* eventTypeId and amount are present in every event of the model).
TransactionValid(data) ==
  /\ TransactionIdValid(data.transactionId)
  /\ data.statusId \in StatusIdOptions

\* The unique index on transactionId.
TransactionIdUnique(data) ==
  \A t \in transactions : t.transactionId # data.transactionId

\* HookNewStatus with newStatus left at its initial value.
HookNewStatusDefault(doc) == "pending"

\* afterChange hook of the Transactions collection: the status it writes to
\* the linked payment order.
HookNewStatus(doc) ==
  IF doc.statusId = "A" /\ doc.eventTypeId = 1796 THEN "completed"
  ELSE IF doc.statusId = "F" \/ doc.eventTypeId = 1798 THEN "failed"
  ELSE "pending"

\* The status processPaymentSuccess / processPaymentFailed write to the order.
HandlerNewStatus(eventTypeId) ==
  IF eventTypeId = 1796 THEN "completed" ELSE "failed"

\* UpdateStatus replacing the document by the data of the update.
UpdateStatusReplaces(id, status) ==
  [orders EXCEPT ![id] = [orderCode |-> NoHeader, status |-> status, amount |-> 0,
                          sourceCode |-> NoKey, checkoutUrl |-> NoHeader]]

\* payload.update of a payment order with data {status}: the other fields of
\* the document are kept (the beforeChange hook of the collection touches
\* orderCode only when the data carry one).
UpdateStatus(id, status) == [orders EXCEPT ![id].status = status]

\* 1 when writing status to order id changes its value, else 0.
Changes(id, status) == IF orders[id].status # status THEN 1 ELSE 0

(***************************************************************************)
(* Requests and responses                                                  *)
(***************************************************************************)
DeliveryIds == {NoDeliveryId, "d1", "d2"}
\* The order codes the gateway issues, and those webhook events carry
\* (9007199254740993 is 2^53 + 1).
GatewayOrderCodes == {<<12345678, 90123456>>}
EventOrderCodes == GatewayOrderCodes \cup {<<90071992, 54740993>>}
StatusIds == {"A", "F", "E", Undefined}

\* The parsed body of a webhook delivery; parses is FALSE for a body on which
\* JSON.parse throws.
PaymentEvents ==
  [parses : {TRUE}, EventTypeId : {1796, 1798}, OrderCode : GatewayOrderCodes,
   StatusId : StatusIds, TransactionId : UuidStrings]
  \cup [parses : {TRUE}, EventTypeId : {1796, 1798}, OrderCode : EventOrderCodes,
        StatusId : {"A"}, TransactionId : UuidStrings \cup {Undefined}]

OtherEvent ==
  [parses |-> TRUE, EventTypeId |-> 4865, OrderCode |-> <<12345678, 90123456>>,
   StatusId |-> Undefined, TransactionId |-> Undefined]
MalformedBody == [OtherEvent EXCEPT !.parses = FALSE]

\* A delivery of body with the Viva-Signature-256 header computed with key.
Signed(body, deliveryId, key) ==
  [deliveryId |-> deliveryId, body |-> body,
   signature256 |-> CreateHmacSignature(body, key, "sha256"), signature |-> NoHeader]

\* Deliveries of body with every combination of the signature headers: none,
\* computed with the key "k1" and computed with another key.
SignatureCases(body, deliveryId) ==
  [deliveryId : {deliveryId}, body : {body},
   signature256 : {NoHeader, CreateHmacSignature(body, "k1", "sha256"),
                   CreateHmacSignature(body, "k2", "sha256")},
   signature : {NoHeader, CreateHmacSignature(body, "k1", "sha1")}]

\* The deliveries the webhook endpoint receives: payment events signed with
\* the key "k1", and one other event and one malformed body under every
\* combination of the signature headers.
Deliveries ==
  {Signed(b, id, "k1") : b \in PaymentEvents, id \in DeliveryIds}
  \cup UNION {SignatureCases(b, id) : b \in {OtherEvent, MalformedBody},
                                      id \in {NoDeliveryId, "d1"}}

NoDelivery == Signed(MalformedBody, NoDeliveryId, NoKey)

\* No answer of the gateway: it was not called.
NoGatewayAnswer ==
  [auth |-> FALSE, json |-> FALSE, status |-> 0, errorCode |-> 0, orderCode |-> NoHeader]

\* A createOrderHandler request: whether a caller identity was resolved, and
\* the amount of the body.
NoReq == [userId |-> FALSE, amount |-> 0]

\* The latest exchange: the response sent and, for createOrderHandler, the
\* request it answers (req), the operations the invocation performed on the
\* way, in order (ops), and what the gateway answered when it was called (gw).
NoResp ==
  [op |-> "none", status |-> 0, msg |-> "", code |-> 0, orderCode |-> <<>>,
   checkoutUrl |-> <<>>, key |-> NoKey, req |-> NoReq, ops |-> <<>>,
   gw |-> NoGatewayAnswer]
WebhookResp(status, msg) ==
  [NoResp EXCEPT !.op = "webhook", !.status = status, !.msg = msg]
CreateResp(req, ops, status, msg, orderCode, checkoutUrl) ==
  [NoResp EXCEPT !.op = "create", !.status = status, !.msg = msg,
                 !.orderCode = orderCode, !.checkoutUrl = checkoutUrl,
                 !.req = req, !.ops = ops]
VerifyResp(status, key) ==
  [NoResp EXCEPT !.op = "verify", !.status = status, !.key = key]

\* A webhookHandler invocation: its position, the delivery it handles, the
\* order found (oid) and linked (link), the response it is about to send, and
\* history fields: the store as it was when the request arrived, the number
\* of times the invocation has changed an order's status (nTrans) and the
\* number of times it has written one (nWrites).
IdleHandler ==
  [pc |-> "idle", d |-> NoDelivery, oid |-> 0, link |-> 0, status |-> 0, msg |-> "",
   nTrans |-> 0, nWrites |-> 0, orders0 |-> <<>>, transactions0 |-> {}]

\* The invocation that starts handling delivery d.
Started(d) ==
  [IdleHandler EXCEPT !.d = d, !.orders0 = orders, !.transactions0 = transactions]

InFlight == {h \in Handlers : hs[h].pc # "idle"}

\* Finish with an error thrown to the caller instead of answered: no status.
FinishPropagates(h, status, msg) ==
  LET st == IF status = 500 THEN 0 ELSE status
  IN IF hs[h].pc = "idle"
       THEN /\ resp' = WebhookResp(st, msg)
            /\ UNCHANGED hs
       ELSE /\ hs' = [hs EXCEPT ![h] = [hs[h] EXCEPT !.pc = "return",
                                          !.status = st, !.msg = msg]]
            /\ resp' = NoResp

\* The handler invocation h returns a response: at once when it has awaited
\* no store operation of its own, else as its next step.
Finish(h, status, msg) ==
  IF hs[h].pc = "idle"
    THEN /\ resp' = WebhookResp(status, msg)
         /\ UNCHANGED hs
    ELSE /\ hs' = [hs EXCEPT ![h] = [hs[h] EXCEPT !.pc = "return",
                                       !.status = status, !.msg = msg]]
         /\ resp' = NoResp

\* The handler invocation h goes on to its next store operation.
Goto(h, rec) ==
  /\ hs' = [hs EXCEPT ![h] = rec]
  /\ resp' = NoResp

(***************************************************************************)
(* webhookHandler (endpoints/handlers.ts), one action per store operation. *)
(* The message of a 500 response is the message of the error caught, named *)
(* here by the kind of error: SyntaxError (JSON.parse), ValidationError    *)
(* (a field or the unique index rejects the document), StoreError (a store *)
(* operation throws).                                                      *)
(***************************************************************************)

\* Dispatch with every event type processed as a payment event.
DispatchAllAsPayment(h, rec) ==
  IF ~rec.d.body.parses THEN Finish(h, 500, "SyntaxError")
  ELSE Goto(h, [rec EXCEPT !.pc = "findOrder"])

\* After the idempotency check: JSON.parse and the switch on EventTypeId;
\* rec is the invocation's record.
Dispatch(h, rec) ==
  IF ~rec.d.body.parses THEN Finish(h, 500, "SyntaxError")
  ELSE IF rec.d.body.EventTypeId \in {1796, 1798}
    THEN Goto(h, [rec EXCEPT !.pc = "findOrder"])
  ELSE Finish(h, 200, "")

\* Admit with the body parsed before the idempotency lookup.
AdmitParsesFirst(h, rec, ok) ==
  IF ~ok THEN Finish(h, 500, "StoreError")
  ELSE IF settings.webhookKey = NoKey
    THEN Finish(h, 500, "Webhook not configured")
  ELSE IF ~ValidateSignature(settings.webhookKey, AllowUnsigned(nodeEnv),
                             rec.d.body, rec.d.signature256, rec.d.signature)
    THEN Finish(h, 401, "Invalid signature")
  ELSE IF ~rec.d.body.parses THEN Finish(h, 500, "SyntaxError")
  ELSE IF rec.d.deliveryId # NoDeliveryId
    THEN Goto(h, [rec EXCEPT !.pc = "idem"])
  ELSE Dispatch(h, rec)

\* After the body has been read and findGlobal has read the settings (ok:
\* neither threw): the webhook key is checked and the signature validated;
\* rec is the invocation's record.
Admit(h, rec, ok) ==
  IF ~ok THEN Finish(h, 500, "StoreError")
  ELSE IF settings.webhookKey = NoKey
    THEN Finish(h, 500, "Webhook not configured")
  ELSE IF ~ValidateSignature(settings.webhookKey, AllowUnsigned(nodeEnv),
                             rec.d.body, rec.d.signature256, rec.d.signature)
    THEN Finish(h, 401, "Invalid signature")
  ELSE IF rec.d.deliveryId # NoDeliveryId
    THEN Goto(h, [rec EXCEPT !.pc = "idem"])
  ELSE Dispatch(h, rec)

\* The request arrives; findGlobal reads the settings; the webhook key is
\* checked and the signature validated.
Receive(h, d, ok) ==
  /\ UNCHANGED <<tokenVars, useVars>>
  /\ hs[h].pc = "idle"
  /\ \A g \in Handlers : g < h => hs[g].pc # "idle"
  /\ Admit(h, Started(d), ok)
  /\ UNCHANGED <<settings, nodeEnv, orders, transactions>>

\* Receive in two steps.  First the request arrives: the body and the headers
\* are read and findGlobal is called.
Arriving(h, d) ==
  /\ UNCHANGED <<tokenVars, call, vs>>
  /\ hs[h].pc = "idle"
  /\ \A g \in Handlers : g < h => hs[g].pc # "idle"
  /\ Goto(h, [Started(d) EXCEPT !.pc = "settings"])
  /\ UNCHANGED <<settings, nodeEnv, orders, transactions>>

Arrive(h, d) == Arriving(h, d) /\ UNCHANGED sent

\* No delivery has been sent yet.
NoSent == [d |-> NoDelivery, orders0 |-> <<>>, transactions0 |-> {}]

\* The latest webhook request was answered with a processing failure.
Failed500 == resp.op = "webhook" /\ resp.status = 500

\* The sender delivers d while no request is being handled: a new delivery,
\* or, when its latest delivery was answered with a processing failure, that
\* same delivery again.
Deliver(h, d) ==
  /\ InFlight = {}
  /\ Arriving(h, d)
  /\ IF Failed500
       THEN d = sent.d /\ UNCHANGED sent
       ELSE sent' = [d |-> d, orders0 |-> orders, transactions0 |-> transactions]

\* Then findGlobal returns (or throws), the webhook key is checked and the
\* signature validated.
ReadSettings(h, ok) ==
  /\ UNCHANGED <<tokenVars, useVars>>
  /\ hs[h].pc = "settings"
  /\ Admit(h, hs[h], ok)
  /\ UNCHANGED <<settings, nodeEnv, orders, transactions>>

\* The idempotency check: find a transaction bearing the delivery identifier.
CheckIdempotency(h, ok) ==
  /\ UNCHANGED <<tokenVars, useVars>>
  /\ hs[h].pc = "idem"
  /\ IF ~ok THEN Finish(h, 500, "StoreError")
     ELSE IF DeliverySeen(hs[h].d.deliveryId)
       THEN Finish(h, 200, "Already processed")
     ELSE Dispatch(h, hs[h])
  /\ UNCHANGED <<settings, nodeEnv, orders, transactions>>

\* processPaymentSuccess / processPaymentFailed: find the order by its code.
FindPaymentOrder(h, ok) ==
  /\ UNCHANGED <<tokenVars, useVars>>
  /\ hs[h].pc = "findOrder"
  /\ IF ~ok THEN Finish(h, 500, "StoreError")
     ELSE LET id == FindOrder(StringOfNumber(JsonNumber(hs[h].d.body.OrderCode)))
          IN Goto(h, [hs[h] EXCEPT !.oid = id,
                        !.pc = IF id # 0 THEN "updateOrder" ELSE "hookFind"])
  /\ UNCHANGED <<settings, nodeEnv, orders, transactions>>

\* processPaymentSuccess / processPaymentFailed: update the order found.
UpdatePaymentOrder(h, ok) ==
  /\ UNCHANGED <<tokenVars, useVars>>
  /\ hs[h].pc = "updateOrder"
  /\ IF ~ok
       THEN /\ Finish(h, 500, "StoreError")
            /\ UNCHANGED orders
       ELSE LET st == HandlerNewStatus(hs[h].d.body.EventTypeId)
            IN /\ orders' = UpdateStatus(hs[h].oid, st)
               /\ Goto(h, [hs[h] EXCEPT !.pc = "hookFind",
                             !.nTrans = @ + Changes(hs[h].oid, st),
                             !.nWrites = @ + 1])
  /\ UNCHANGED <<settings, nodeEnv, transactions>>

\* payload.create of the transaction, first part: the beforeChange hook looks
\* the payment order up (an error is caught and leaves the link unset), then
\* the fields are validated.
CreateBeforeChange(h, ok) ==
  /\ UNCHANGED <<tokenVars, useVars>>
  /\ hs[h].pc = "hookFind"
  /\ LET data == TransactionData(hs[h].d)
     IN IF ~TransactionValid(data)
          THEN Finish(h, 500, "ValidationError")
          ELSE Goto(h, [hs[h] EXCEPT !.pc = "insert",
                          !.link = IF ok THEN FindOrder(data.orderCode) ELSE 0])
  /\ UNCHANGED <<settings, nodeEnv, orders, transactions>>

\* payload.create of the transaction, second part: the insert, which the
\* unique index on transactionId may reject.
CreateInsert(h, ok) ==
  /\ UNCHANGED <<tokenVars, useVars>>
  /\ hs[h].pc = "insert"
  /\ IF ~ok
       THEN /\ Finish(h, 500, "StoreError")
            /\ UNCHANGED transactions
     ELSE IF ~TransactionIdUnique(TransactionData(hs[h].d))
       THEN /\ Finish(h, 500, "ValidationError")
            /\ UNCHANGED transactions
     ELSE /\ transactions' = transactions \cup {TransactionData(hs[h].d)}
          /\ IF hs[h].link # 0
               THEN Goto(h, [hs[h] EXCEPT !.pc = "hookUpdate"])
               ELSE Finish(h, 200, "")
  /\ UNCHANGED <<settings, nodeEnv, orders>>

\* payload.create of the transaction, last part: the afterChange hook updates
\* the linked payment order (an error is caught); processing is then over.
CreateAfterChange(h, ok) ==
  /\ UNCHANGED <<tokenVars, useVars>>
  /\ hs[h].pc = "hookUpdate"
  /\ LET st == HookNewStatus(TransactionData(hs[h].d))
     IN IF ok
          THEN /\ orders' = UpdateStatus(hs[h].link, st)
               /\ hs' = [hs EXCEPT ![h] = [hs[h] EXCEPT !.pc = "return",
                           !.status = 200, !.msg = "",
                           !.nTrans = @ + Changes(hs[h].link, st),
                           !.nWrites = @ + 1]]
               /\ resp' = NoResp
          ELSE /\ UNCHANGED orders
               /\ Finish(h, 200, "")
  /\ UNCHANGED <<settings, nodeEnv, transactions>>

\* The handler invocation h sends the response it has reached.
Return(h) ==
  /\ UNCHANGED <<tokenVars, useVars>>
  /\ hs[h].pc = "return"
  /\ resp' = WebhookResp(hs[h].status, hs[h].msg)
  /\ hs' = [hs EXCEPT ![h] = IdleHandler]
  /\ UNCHANGED <<settings, nodeEnv, orders, transactions>>

(***************************************************************************)
(* createOrderHandler and verifyWebhookHandler (endpoints/handlers.ts)     *)
(***************************************************************************)

\* What the authorization endpoint and the order endpoint answer to one
\* session creation: auth is FALSE when getToken() throws; json is FALSE when
\* the body of the order response is no JSON; status is the HTTP status;
\* errorCode is 0 when the body carries none or zero; orderCode is NoHeader
\* when the body carries none.
GatewayAnswers ==
  [auth : {TRUE}, json : {TRUE}, status : {200}, errorCode : {0},
   orderCode : GatewayOrderCodes]
  \cup {[NoGatewayAnswer EXCEPT !.status = 401],
        [auth |-> TRUE, json |-> TRUE, status |-> 500, errorCode |-> 0,
         orderCode |-> NoHeader],
        [auth |-> TRUE, json |-> TRUE, status |-> 200, errorCode |-> 400,
         orderCode |-> NoHeader],
        [auth |-> TRUE, json |-> TRUE, status |-> 200, errorCode |-> 0,
         orderCode |-> NoHeader]}

\* response.ok
HttpOk(status) == status \in 200..299

\* What createPaymentOrder throws: the message of the error and the number
\* it carries in brackets (0 when it carries none).
Throws(msg, code) ==
  [ok |-> FALSE, msg |-> msg, code |-> code, orderCode |-> NoHeader,
   checkoutUrl |-> NoHeader]

\* createPaymentOrder taking the response for a success whenever the HTTP
\* status is ok.
CreatePaymentOrderStatusOnly(gw, environment) ==
  IF ~gw.auth THEN Throws("Failed to obtain Viva Wallet access token", 0)
  ELSE IF ~gw.json THEN Throws("SyntaxError", 0)
  ELSE IF ~HttpOk(gw.status) THEN Throws("Viva API Error", gw.status)
  ELSE LET orderCode ==
             IF gw.orderCode = NoHeader THEN NoHeader
             ELSE StringOfNumber(JsonNumber(gw.orderCode))
       IN [ok |-> TRUE, msg |-> "", code |-> 0, orderCode |-> orderCode,
           checkoutUrl |-> GetCheckoutUrl(environment, orderCode)]

\* VivaWalletService.createPaymentOrder of a service for the given
\* environment: what it returns (ok) or throws.
CreatePaymentOrder(gw, environment) ==
  IF ~gw.auth THEN Throws("Failed to obtain Viva Wallet access token", 0)
  ELSE IF ~gw.json THEN Throws("SyntaxError", 0)
  ELSE IF ~HttpOk(gw.status) \/ gw.errorCode # 0
    THEN Throws("Viva API Error", IF gw.errorCode # 0 THEN gw.errorCode ELSE gw.status)
  ELSE IF gw.orderCode = NoHeader
    THEN Throws("Invalid response: missing orderCode", 0)
  ELSE LET orderCode == StringOfNumber(JsonNumber(gw.orderCode))
       IN [ok |-> TRUE, msg |-> "", code |-> 0, orderCode |-> orderCode,
           checkoutUrl |-> GetCheckoutUrl(environment, orderCode)]

\* VivaWalletService.createPaymentOrder: TRUE when it returns, FALSE when it
\* throws.
CreatePaymentOrderOk(gw) == CreatePaymentOrder(gw, "demo").ok

\* The configuration check with the source code left out.
ConfiguredIgnoresSourceCode(st) ==
  st.clientId # NoKey /\ st.clientSecret # NoKey

\* The configuration check of createOrderHandler.
Configured(st) ==
  st.clientId # NoKey /\ st.clientSecret # NoKey /\ st.sourceCode # NoKey

\* The amounts of the model; 0 also stands for a missing amount.
Amounts == {0, 1000}

\* The TokenManager a new VivaWalletService constructs for itself.
NewTokenManager == [token |-> Null, tokenExpiry |-> Null, refreshPromise |-> Null]

\* The outbound calls of one createPaymentOrder on a service whose
\* TokenManager is tm: the authorization request of getToken(), unless tm
\* holds a valid token, then the order request.
CreatePaymentOrderCalls(tm, gw) ==
  IF CachedTokenValid(tm.token, tm.tokenExpiry, now) THEN <<"checkout/v2/orders">>
  ELSE IF gw.auth THEN <<"connect/token", "checkout/v2/orders">>
  ELSE <<"connect/token">>

\* createOrderHandler with the amount validated after the gateway call.
CreateOrderOutcomeAmountLate(userId, amount, ok, st, gw) ==
  IF ~userId THEN "unauthorized"
  ELSE IF ~ok THEN "storeError"
  ELSE IF ~Configured(st) THEN "notConfigured"
  ELSE IF ~CreatePaymentOrderOk(gw) THEN "gatewayError"
  ELSE IF amount <= 0 THEN "invalidAmount"
  ELSE "create"

\* createOrderHandler with the caller checked after the amount.
CreateOrderOutcomeAuthLate(userId, amount, ok, st, gw) ==
  IF amount <= 0 THEN "invalidAmount"
  ELSE IF ~userId THEN "unauthorized"
  ELSE IF ~ok THEN "storeError"
  ELSE IF ~Configured(st) THEN "notConfigured"
  ELSE IF ~CreatePaymentOrderOk(gw) THEN "gatewayError"
  ELSE "create"

\* The point up to which createOrderHandler gets, from the order of its
\* checks: the caller, the amount, findGlobal, the configuration, the gateway.
CreateOrderOutcome(userId, amount, ok, st, gw) ==
  IF ~userId THEN "unauthorized"
  ELSE IF amount <= 0 THEN "invalidAmount"
  ELSE IF ~ok THEN "storeError"
  ELSE IF ~Configured(st) THEN "notConfigured"
  ELSE IF ~CreatePaymentOrderOk(gw) THEN "gatewayError"
  ELSE "create"

\* The operations an invocation performs up to the point it gets to.
CreateOrderOps(outcome, gw) ==
  IF outcome = "unauthorized" THEN <<>>
  ELSE IF outcome = "invalidAmount" THEN <<"req.json">>
  ELSE IF outcome = "storeError" THEN <<"req.json", "findGlobal throws">>
  ELSE IF outcome = "notConfigured" THEN <<"req.json", "findGlobal">>
  ELSE IF outcome = "gatewayError"
    THEN <<"req.json", "findGlobal">> \o CreatePaymentOrderCalls(NewTokenManager, gw)
  ELSE <<"req.json", "findGlobal">> \o CreatePaymentOrderCalls(NewTokenManager, gw)
         \o <<"create">>

\* The document createOrderHandler stores with its status completed.
NewPaymentOrderCompleted(amount, vivaOrder, st) ==
  [orderCode |-> vivaOrder.orderCode, status |-> "completed", amount |-> amount,
   sourceCode |-> st.sourceCode, checkoutUrl |-> vivaOrder.checkoutUrl]

\* The document createOrderHandler hands to payload.create.
NewPaymentOrder(amount, vivaOrder, st) ==
  [orderCode |-> vivaOrder.orderCode, status |-> "pending", amount |-> amount,
   sourceCode |-> st.sourceCode, checkoutUrl |-> vivaOrder.checkoutUrl]

\* createOrderHandler for a caller (userId is FALSE when there is none), the
\* amount of the request body, the gateway's answers gw, and whether the
\* store operations succeed.  The error of a 500 response is the error
\* caught: its message, and the number the message carries.
CreateOrderHandler(userId, amount, gw, ok) ==
  /\ UNCHANGED <<tokenVars, useVars>>
  /\ LET outcome == CreateOrderOutcome(userId, amount, ok, settings, gw)
         req == [userId |-> userId, amount |-> amount]
         ops == CreateOrderOps(outcome, gw)
         answer == IF outcome \in {"gatewayError", "create"} THEN gw ELSE NoGatewayAnswer
         Failed(status, msg, code) ==
           /\ resp' = [CreateResp(req, ops, status, msg, NoHeader, NoHeader)
                         EXCEPT !.code = code, !.gw = answer]
           /\ UNCHANGED orders
     IN IF outcome = "unauthorized" THEN Failed(401, "Unauthorized", 0)
        ELSE IF outcome = "invalidAmount" THEN Failed(400, "Invalid amount", 0)
        ELSE IF outcome = "storeError" THEN Failed(500, "StoreError", 0)
        ELSE IF outcome = "notConfigured"
          THEN Failed(500, "Viva Wallet is not configured", 0)
        ELSE LET vivaOrder == CreatePaymentOrder(gw, settings.environment)
             IN IF outcome = "gatewayError"
                  THEN Failed(500, vivaOrder.msg, vivaOrder.code)
                ELSE LET data == NewPaymentOrder(amount, vivaOrder, settings)
                     IN IF OrderCodeValid(data.orderCode) /\ FindOrder(data.orderCode) = 0
                          THEN /\ orders' = Append(orders, data)
                               /\ resp' = [CreateResp(req, ops, 200, "",
                                                      orders'[Len(orders')].orderCode,
                                                      orders'[Len(orders')].checkoutUrl)
                                             EXCEPT !.gw = answer]
                          ELSE Failed(500, "ValidationError", 0)
  /\ UNCHANGED <<settings, nodeEnv, transactions, hs>>

\* The keys generateWebhookKey() returns.
WebhookKeys == {"k1", "k2"}

\* The required fields of the viva-settings global, validated on update
\* (the environment variables that stand in for missing credentials are
\* taken to be unset).
SettingsRequired(data) ==
  data.clientId # NoKey /\ data.clientSecret # NoKey /\ data.sourceCode # NoKey

\* The beforeChange hook of the viva-settings global: a key is generated when
\* the data hold none or ask for a new one, and the request for a new one is
\* reset.
SettingsBeforeChange(data, generated) ==
  [data EXCEPT !.webhookKey = IF data.webhookKey = NoKey \/ data.regenerateWebhookKey
                                THEN generated ELSE @,
               !.regenerateWebhookKey = FALSE]

\* verifyWebhookHandler; newKey is what generateWebhookKey() returns when the
\* handler calls it.  updateGlobal runs the beforeChange hook, validates the
\* fields and writes; the response carries the handler's own key.
VerifyWebhookHandler(newKey, ok) ==
  /\ UNCHANGED <<tokenVars, useVars>>
  /\ IF ~ok
       THEN /\ resp' = [VerifyResp(500, NoKey) EXCEPT !.msg = "StoreError"]
            /\ UNCHANGED settings
     ELSE IF settings.webhookKey = NoKey
       THEN \E generated \in WebhookKeys :
              LET data == SettingsBeforeChange([settings EXCEPT !.webhookKey = newKey],
                                               generated)
              IN IF SettingsRequired(data)
                   THEN /\ settings' = data
                        /\ resp' = VerifyResp(200, newKey)
                   ELSE /\ resp' = [VerifyResp(500, NoKey) EXCEPT !.msg = "ValidationError"]
                        /\ UNCHANGED settings
     ELSE /\ resp' = VerifyResp(200, settings.webhookKey)
          /\ UNCHANGED settings
  /\ UNCHANGED <<nodeEnv, orders, transactions, hs>>

\* verifyWebhookHandler invocations that interleave at their awaits: the
\* position of each, the data it hands to updateGlobal, and what it answered.
Verifiers == {1, 2}
IdleVerifier ==
  [pc |-> "idle", data |-> [webhookKey |-> NoKey], status |-> 0, key |-> NoKey]
NoVerifiers == [v \in Verifiers |-> IdleVerifier]

\* Invocation v answers.
VerifyAnswers(v, status, key, msg) ==
  /\ vs' = [vs EXCEPT ![v] = [pc |-> "done", data |-> [webhookKey |-> NoKey],
                              status |-> status, key |-> key]]
  /\ resp' = [VerifyResp(status, key) EXCEPT !.msg = msg]

\* verifyWebhookHandler up to its second await: the request arrives, findGlobal
\* returns the settings (ok) or throws; with a key stored the invocation
\* answers with it, with none it generates newKey and calls updateGlobal
\* with the settings it read and that key.
VerifyFind(v, newKey, ok) ==
  /\ UNCHANGED <<tokenVars, call, sent>>
  /\ vs[v].pc = "idle"
  /\ \A u \in Verifiers : u < v => vs[u].pc # "idle"
  /\ IF ~ok THEN VerifyAnswers(v, 500, NoKey, "StoreError")
     ELSE IF settings.webhookKey # NoKey
       THEN VerifyAnswers(v, 200, settings.webhookKey, "")
     ELSE /\ vs' = [vs EXCEPT ![v] = [pc |-> "update",
                       data |-> [settings EXCEPT !.webhookKey = newKey],
                       status |-> 0, key |-> newKey]]
          /\ resp' = NoResp
  /\ UNCHANGED <<settings, nodeEnv, orders, transactions, hs>>

\* verifyWebhookHandler from its second await on: updateGlobal runs the
\* beforeChange hook on the data, validates the fields and writes them (ok)
\* or throws; the invocation answers with the key it generated.
VerifyUpdate(v, ok) ==
  /\ UNCHANGED <<tokenVars, call, sent>>
  /\ vs[v].pc = "update"
  /\ \E generated \in WebhookKeys :
       LET data == SettingsBeforeChange(vs[v].data, generated)
       IN IF ~ok
            THEN /\ VerifyAnswers(v, 500, NoKey, "StoreError")
                 /\ UNCHANGED settings
          ELSE IF ~SettingsRequired(data)
            THEN /\ VerifyAnswers(v, 500, NoKey, "ValidationError")
                 /\ UNCHANGED settings
          ELSE /\ settings' = data
               /\ VerifyAnswers(v, 200, vs[v].key, "")
  /\ UNCHANGED <<nodeEnv, orders, transactions, hs>>

(***************************************************************************)
(* WebhookValidator used directly (services/WebhookValidator.ts)           *)
(***************************************************************************)
NoCall ==
  [secret |-> NoKey, option |-> "none", d |-> NoDelivery, result |-> "none"]

\* new WebhookValidator(secret, options).validateSignature(body, signature256,
\* signature): "throws" when the constructor throws, else "accept" or "reject".
WebhookValidatorResult(secret, option, env, d) ==
  IF secret = NoKey /\ ~AllowUnsignedWith(option, env) THEN "throws"
  ELSE IF ValidateSignature(secret, AllowUnsignedWith(option, env),
                            d.body, d.signature256, d.signature)
    THEN "accept"
  ELSE "reject"

\* Header values that are no digest: a right digest cut short, and a string of
\* the length of a digest that is not hexadecimal.
TruncatedSignature(algorithm) == <<algorithm, "k1">>
MalformedSignature == <<"?", "?", OtherEvent>>

\* The deliveries handed to a validator: one body under every combination of
\* an absent, a right (key "k1"), a wrong (key "k2"), a cut short and a
\* malformed value of each header.
ValidatorDeliveries ==
  [deliveryId : {NoDeliveryId}, body : {OtherEvent},
   signature256 : {NoHeader, CreateHmacSignature(OtherEvent, "k1", "sha256"),
                   CreateHmacSignature(OtherEvent, "k2", "sha256"),
                   TruncatedSignature("sha256"), MalformedSignature},
   signature : {NoHeader, CreateHmacSignature(OtherEvent, "k1", "sha1"),
                CreateHmacSignature(OtherEvent, "k2", "sha1"),
                TruncatedSignature("sha1"), MalformedSignature}]

\* A validator is constructed and used once.
Validate(secret, option, d) ==
  /\ call' = [secret |-> secret, option |-> option, d |-> d,
              result |-> WebhookValidatorResult(secret, option, nodeEnv, d)]
  /\ UNCHANGED <<tokenVars, hookVars, sent, vs>>

(***************************************************************************)
(* Specifications                                                          *)
(***************************************************************************)
StoreInit ==
  /\ settings = [clientId |-> "client-id", clientSecret |-> "client-secret",
                 sourceCode |-> "0000", environment |-> "demo", webhookKey |-> NoKey,
                 regenerateWebhookKey |-> FALSE]
  /\ orders = <<>>
  /\ transactions = {}
  /\ hs = [h \in Handlers |-> IdleHandler]
  /\ resp = NoResp

HookInit == StoreInit /\ nodeEnv = "production"

Init == TokenInit /\ HookInit /\ call = NoCall /\ sent = NoSent /\ vs = NoVerifiers

\* Requests are handled one at a time: a request arrives when no
\* webhookHandler invocation is in flight.
Next ==
  \/ \E d \in Deliveries, ok \in BOOLEAN : InFlight = {} /\ Receive(1, d, ok)
  \/ \E u \in BOOLEAN, a \in Amounts, gw \in GatewayAnswers, ok \in BOOLEAN :
       InFlight = {} /\ CreateOrderHandler(u, a, gw, ok)
  \/ \E ok \in BOOLEAN : InFlight = {} /\ VerifyWebhookHandler("k1", ok)
  \/ \E ok \in BOOLEAN : CheckIdempotency(1, ok)
  \/ \E ok \in BOOLEAN : FindPaymentOrder(1, ok)
  \/ \E ok \in BOOLEAN : UpdatePaymentOrder(1, ok)
  \/ \E ok \in BOOLEAN : CreateBeforeChange(1, ok)
  \/ \E ok \in BOOLEAN : CreateInsert(1, ok)
  \/ \E ok \in BOOLEAN : CreateAfterChange(1, ok)
  \/ Return(1)

Spec == Init /\ [][Next]_vars

\* The token manager alone.
TokenSpec == Init /\ [][TokenNext]_vars

\* The token manager with time passing.  Neither refreshToken() nor
\* getToken() sets a timer or passes a signal to fetch(), so nothing but the
\* answer of the authorization endpoint, which may never come, settles a
\* request.
TokenLiveSpec == TokenSpec /\ WF_vars(\E d \in TickSteps : Tick(d))

\* Two webhookHandler invocations may be in flight at once and interleave at
\* their store operations; the deliveries all carry the delivery identifier
\* "d1" and an approved or failed payment of the one order code.
ConcEvents ==
  [parses : {TRUE}, EventTypeId : {1796, 1798}, OrderCode : GatewayOrderCodes,
   StatusId : {"A"}, TransactionId : UuidStrings]
ConcDeliveries == {Signed(b, "d1", "k1") : b \in ConcEvents}
ConcGatewayAnswer ==
  [auth |-> TRUE, json |-> TRUE, status |-> 200, errorCode |-> 0,
   orderCode |-> <<12345678, 90123456>>]

ConcNext ==
  \/ \E h \in Handlers, d \in ConcDeliveries, ok \in BOOLEAN : Receive(h, d, ok)
  \/ InFlight = {} /\ CreateOrderHandler(TRUE, 1000, ConcGatewayAnswer, TRUE)
  \/ InFlight = {} /\ VerifyWebhookHandler("k1", TRUE)
  \/ \E h \in Handlers, ok \in BOOLEAN : CheckIdempotency(h, ok)
  \/ \E h \in Handlers, ok \in BOOLEAN : FindPaymentOrder(h, ok)
  \/ \E h \in Handlers, ok \in BOOLEAN : UpdatePaymentOrder(h, ok)
  \/ \E h \in Handlers, ok \in BOOLEAN : CreateBeforeChange(h, ok)
  \/ \E h \in Handlers, ok \in BOOLEAN : CreateInsert(h, ok)
  \/ \E h \in Handlers, ok \in BOOLEAN : CreateAfterChange(h, ok)
  \/ \E h \in Handlers : Return(h)

ConcSpec == Init /\ [][ConcNext]_vars

\* Webhook requests handled one at a time, the arrival of a request and the
\* reading of the settings being two steps; the deliveries carry one payment
\* event, one other event or a body that is no JSON under every combination
\* of the signature headers.
SigEvent ==
  [parses |-> TRUE, EventTypeId |-> 1796, OrderCode |-> <<12345678, 90123456>>,
   StatusId |-> "A", TransactionId |-> "550e8400-e29b-41d4-a716-446655440000"]
SigDeliveries ==
  UNION {SignatureCases(b, id) : b \in {OtherEvent, SigEvent, MalformedBody},
                                 id \in {NoDeliveryId, "d1"}}

SigNext ==
  \/ \E d \in SigDeliveries : InFlight = {} /\ Arrive(1, d)
  \/ \E ok \in BOOLEAN : ReadSettings(1, ok)
  \/ InFlight = {} /\ CreateOrderHandler(TRUE, 1000, ConcGatewayAnswer, TRUE)
  \/ \E ok \in BOOLEAN : InFlight = {} /\ VerifyWebhookHandler("k1", ok)
  \/ \E ok \in BOOLEAN : CheckIdempotency(1, ok)
  \/ \E ok \in BOOLEAN : FindPaymentOrder(1, ok)
  \/ \E ok \in BOOLEAN : UpdatePaymentOrder(1, ok)
  \/ \E ok \in BOOLEAN : CreateBeforeChange(1, ok)
  \/ \E ok \in BOOLEAN : CreateInsert(1, ok)
  \/ \E ok \in BOOLEAN : CreateAfterChange(1, ok)
  \/ Return(1)

SigSpec == Init /\ [][SigNext]_vars

\* The steps of webhookHandler invocation h after the arrival of its request.
HandlerSteps(h) ==
  \/ \E ok \in BOOLEAN : ReadSettings(h, ok)
  \/ \E ok \in BOOLEAN : CheckIdempotency(h, ok)
  \/ \E ok \in BOOLEAN : FindPaymentOrder(h, ok)
  \/ \E ok \in BOOLEAN : UpdatePaymentOrder(h, ok)
  \/ \E ok \in BOOLEAN : CreateBeforeChange(h, ok)
  \/ \E ok \in BOOLEAN : CreateInsert(h, ok)
  \/ \E ok \in BOOLEAN : CreateAfterChange(h, ok)
  \/ Return(h)

\* SigSpec with every awaited operation of an invocation settling: the store
\* answers or throws, and the invocation then takes its next step.
SigLiveSpec == SigSpec /\ WF_vars(HandlerSteps(1))

\* Redelivery: the sender delivers one delivery at a time and delivers it again
\* while it is answered with a processing failure; sessions are created and
\* the key is obtained between deliveries.  The store operations whose
\* failure is answered 500 may fail; the events are approved and failed
\* payments of the one order code.
RetryEvents ==
  [parses : {TRUE}, EventTypeId : {1796, 1798}, OrderCode : GatewayOrderCodes,
   StatusId : {"A", "F"}, TransactionId : UuidStrings]
RetryDeliveries ==
  {Signed(b, id, "k1") : b \in RetryEvents, id \in {NoDeliveryId, "d1"}}

RetryNext ==
  \/ \E d \in RetryDeliveries : Deliver(1, d)
  \/ ~Failed500 /\ InFlight = {} /\ CreateOrderHandler(TRUE, 1000, ConcGatewayAnswer, TRUE)
  \/ ~Failed500 /\ InFlight = {} /\ VerifyWebhookHandler("k1", TRUE)
  \/ \E ok \in BOOLEAN : ReadSettings(1, ok)
  \/ \E ok \in BOOLEAN : CheckIdempotency(1, ok)
  \/ \E ok \in BOOLEAN : FindPaymentOrder(1, ok)
  \/ \E ok \in BOOLEAN : UpdatePaymentOrder(1, ok)
  \/ CreateBeforeChange(1, TRUE)
  \/ \E ok \in BOOLEAN : CreateInsert(1, ok)
  \/ CreateAfterChange(1, TRUE)
  \/ Return(1)

RetrySpec == Init /\ [][RetryNext]_vars

\* Session creation and webhook verification, one request at a time, under
\* every configuration of the settings: createOrderHandler with valid, zero
\* and negative amounts, verifyWebhookHandler with either generated key.
SessionAmounts == {0 - 1, 0, 1000, 2500}

SessionSettings ==
  {[clientId |-> id, clientSecret |-> secret, sourceCode |-> src,
    environment |-> env, webhookKey |-> NoKey, regenerateWebhookKey |-> FALSE] :
     id \in {NoKey, "client-id"}, secret \in {NoKey, "client-secret"},
     src \in {NoKey, "0000"}, env \in {"demo", "live"}}

\* The order codes the gateway answers with in session creation alone:
\* 9007199254740993 is 2^53 + 1, and 9999999999999999 is the largest one.
SessionOrderCodes ==
  GatewayOrderCodes \cup {<<90071992, 54740993>>, <<99999999, 99999999>>}

\* The gateway's answers in session creation alone: every combination of the
\* HTTP status, the error code and the order code, a failing authorization
\* and a body that is no JSON.
SessionGatewayAnswers ==
  [auth : {TRUE}, json : {TRUE}, status : {200, 500}, errorCode : {0, 400},
   orderCode : {NoHeader} \cup SessionOrderCodes]
  \cup {[NoGatewayAnswer EXCEPT !.status = 401],
        [NoGatewayAnswer EXCEPT !.auth = TRUE, !.status = 502]}

SessionInit ==
  /\ TokenInit
  /\ settings \in SessionSettings
  /\ nodeEnv = "production"
  /\ orders = <<>>
  /\ transactions = {}
  /\ hs = [h \in Handlers |-> IdleHandler]
  /\ resp = NoResp
  /\ call = NoCall /\ sent = NoSent /\ vs = NoVerifiers

SessionNext ==
  \/ \E u \in BOOLEAN, a \in SessionAmounts, gw \in SessionGatewayAnswers,
        ok \in BOOLEAN :
       CreateOrderHandler(u, a, gw, ok)
  \/ \E newKey \in WebhookKeys, ok \in BOOLEAN : VerifyWebhookHandler(newKey, ok)

SessionSpec == SessionInit /\ [][SessionNext]_vars

\* Webhook verification alone, the invocations interleaving at their awaits,
\* under every configuration of the settings.
VerifyNext ==
  \/ \E v \in Verifiers, newKey \in WebhookKeys, ok \in BOOLEAN : VerifyFind(v, newKey, ok)
  \/ \E v \in Verifiers, ok \in BOOLEAN : VerifyUpdate(v, ok)

VerifySpec == SessionInit /\ [][VerifyNext]_vars

\* A WebhookValidator used directly, with every secret, option and NODE_ENV.
ValidatorInit ==
  /\ TokenInit
  /\ StoreInit
  /\ nodeEnv \in {"production", "development", "test"}
  /\ call = NoCall /\ sent = NoSent /\ vs = NoVerifiers

ValidatorNext ==
  \E secret \in {NoKey, "k1"}, option \in {"none", "true", "false"},
     d \in ValidatorDeliveries : Validate(secret, option, d)

ValidatorSpec == ValidatorInit /\ [][ValidatorNext]_vars

(***************************************************************************)
(* Claims about TokenManager                                               *)
(***************************************************************************)

\* The getToken() calls that were started while no token was cached.
StartedUncached == {c \in Callers : callers[c].pc # "idle" /\ callers[c].nul}

\* C1: getToken() calls started while no token is cached and within one
\* window (no authorization response has arrived and clearToken() has not been
\* called between them) share one refresh: exactly one authorization request
\* is issued in that window, every such call awaits it, and the calls that
\* have returned all returned the same value.
C1_Coalescing ==
  /\ \A c \in StartedUncached :
       /\ callers[c].p \in 1..Len(promises)
       /\ promises[callers[c].p].ep = callers[c].ep
  /\ \A p, q \in 1..Len(promises) : promises[p].ep = promises[q].ep => p = q
  /\ \A c, d \in StartedUncached :
       callers[c].ep = callers[d].ep =>
         /\ callers[c].p = callers[d].p
         /\ (callers[c].pc = "done" /\ callers[d].pc = "done"
               => callers[c].res = callers[d].res)

\* Witness of C1: all the calls were started in the first window with no
\* token cached, one request was issued, and they all returned its token.
C1_Witness ==
  /\ \A c \in Callers :
       /\ callers[c].pc = "done"
       /\ callers[c].nul
       /\ callers[c].ep = 0
       /\ callers[c].res \in TokenValues
  /\ Len(promises) = 1

\* Invocation c of getToken() is made in this step.
Calls(c) == callers[c].pc = "idle" /\ callers'[c].pc # "idle"

\* This step issues exactly one authorization request, which invocation c
\* awaits.
IssuesRequestFor(c) ==
  /\ Len(promises') = Len(promises) + 1
  /\ promises'[Len(promises')].state = "pending"
  /\ callers'[c].pc = "waiting"
  /\ callers'[c].p = Len(promises')

\* Promise p is settled in this step.
Settles(p) == promises[p].state = "pending" /\ promises'[p].state # "pending"

\* C14: a getToken() call made with no refresh marker set and a token cached
\* returns the cached token without an authorization request when the expiry
\* is more than 5 minutes after now, and otherwise issues exactly one
\* authorization request; a call that awaited a request returns what that
\* request brought.
C14_ExpiryMargin ==
  [][/\ \A c \in Callers :
          Calls(c) /\ refreshPromise = Null /\ token # Null =>
            IF tokenExpiry > now + BufferMs
              THEN /\ callers'[c].pc = "done"
                   /\ callers'[c].res = token
                   /\ promises' = promises
              ELSE IssuesRequestFor(c)
     /\ \A c \in Callers :
          callers[c].pc = "waiting" /\ callers'[c].pc = "done" =>
            /\ Settles(callers[c].p)
            /\ callers'[c].res = promises'[callers[c].p].value
            /\ promises'[callers[c].p].state = "resolved" => callers'[c].res = token']_vars

\* Witness of C14: one call returned the cached token at once, and another,
\* made while a token was cached, started a request of its own and returned
\* the token it brought.
C14_Witness ==
  /\ \E c \in Callers :
       callers[c].pc = "done" /\ callers[c].p = Null /\ callers[c].res \in TokenValues
  /\ \E c \in Callers :
       /\ callers[c].pc = "done" /\ callers[c].p # Null /\ ~callers[c].nul
       /\ promises[callers[c].p].owner = c
       /\ callers[c].res \in TokenValues

\* C15: the first getToken() call made after clearToken() issues an
\* authorization request.
C15_FreshAfterClear ==
  [][\A c \in Callers : Calls(c) /\ cleared => IssuesRequestFor(c)]_vars

\* C16: the step in which a refresh completes, with a token or with an error,
\* leaves the refresh marker null, and the marker never refers to a refresh
\* that has completed.
C16_HandleCleared ==
  [][/\ (\E p \in 1..Len(promises) : Settles(p)) => refreshPromise' = Null
     /\ refreshPromise' # Null => promises'[refreshPromise'].state = "pending"]_vars

\* Witness of C16: the first refresh has completed, the marker was cleared,
\* and a later call that found the cached token stale started a second
\* request, now in flight.
C16_Witness ==
  /\ Len(promises) >= 2
  /\ promises[1].state = "resolved"
  /\ promises[2].state = "pending"
  /\ refreshPromise = 2
  /\ clears = 0
  /\ ~callers[promises[2].owner].nul

\* C17: the step in which a refresh fails makes getToken() fail for every
\* caller awaiting it and leaves no token and no expiry cached.
C17_FailureClearsToken ==
  [][\A p \in 1..Len(promises) :
       Settles(p) /\ promises'[p].state = "rejected" =>
         /\ token' = Null
         /\ tokenExpiry' = Null
         /\ \A c \in Callers :
              callers[c].pc = "waiting" /\ callers[c].p = p =>
                callers'[c].pc = "done" /\ callers'[c].res = AuthError]_vars

\* Witness of C17: a refresh started while a token was cached has failed, two
\* callers that awaited it got the error, and no token is cached.
C17_Witness ==
  /\ token = Null /\ tokenExpiry = Null
  /\ \E p \in 1..Len(promises) :
       /\ promises[p].state = "rejected"
       /\ ~callers[promises[p].owner].nul
       /\ Cardinality({c \in Callers : callers[c].pc = "done" /\ callers[c].p = p
                                        /\ callers[c].res = AuthError}) >= 2

(***************************************************************************)
(* Claims about webhook processing                                         *)
(***************************************************************************)

\* The delivery carries a payment-created or payment-failed event.
IsPayment(d) == d.body.parses /\ d.body.EventTypeId \in {1796, 1798}

\* The order code of the delivery's event, as the handler compares it.
EventOrderCode(d) == StringOfNumber(JsonNumber(d.body.OrderCode))

\* The status, among the orders os, of the order with the given code.
StatusIn(os, code) ==
  IF \E i \in 1..Len(os) : os[i].orderCode = code
    THEN os[CHOOSE i \in 1..Len(os) : os[i].orderCode = code].status
    ELSE "none"

\* The transactions among ts that bear the delivery identifier id.
Bearing(ts, id) == {t \in ts : t.vivaDeliveryId = id}

\* Invocation h is about to send a response.
Returning(h) == hs[h].pc = "return"

\* Invocation h is about to acknowledge its delivery with success.
Acked(h) == Returning(h) /\ hs[h].status = 200

\* The delivery of invocation h bore an identifier that a Transaction already
\* bore when the request arrived.
Seen0(h) ==
  /\ hs[h].d.deliveryId # NoDeliveryId
  /\ Bearing(hs[h].transactions0, hs[h].d.deliveryId) # {}

\* C2: a validly signed payment delivery with a delivery identifier, submitted
\* one submission after the other, changes the status of the referenced order
\* at most once, leaves exactly one Transaction bearing the identifier once it
\* is acknowledged, and a submission that finds the identifier already borne
\* by a Transaction returns success (unless a store operation throws) without
\* creating a record or updating an order.
C2_Idempotent ==
  \A h \in Handlers :
    Returning(h) /\ IsPayment(hs[h].d) /\ hs[h].d.deliveryId # NoDeliveryId =>
      /\ hs[h].nTrans <= 1
      /\ hs[h].status = 200 =>
           Cardinality(Bearing(transactions, hs[h].d.deliveryId)) = 1
      /\ Seen0(h) =>
           /\ hs[h].msg # "StoreError" => hs[h].status = 200
           /\ orders = hs[h].orders0
           /\ transactions = hs[h].transactions0

\* C3: once both of two interleaved webhookHandler invocations for the same
\* delivery identifier have finished, at most one Transaction bears that
\* identifier.
C3_AtMostOnePerDelivery ==
  InFlight = {} =>
    \A id \in DeliveryIds \ {NoDeliveryId} :
      Cardinality(Bearing(transactions, id)) <= 1

\* C4: no step sets the status of a completed or failed order back to pending.
C4_NoRegression ==
  [][\A i \in 1..Len(orders) :
       orders[i].status \in {"completed", "failed"} => orders'[i].status # "pending"]_vars

\* C5: no step changes a completed order to failed or a failed order to
\* completed.
C5_TerminalIsFinal ==
  [][\A i \in 1..Len(orders) :
       /\ orders[i].status = "completed" => orders'[i].status # "failed"
       /\ orders[i].status = "failed" => orders'[i].status # "completed"]_vars

\* C6: whenever no webhook request is being handled, every order whose status
\* is not pending has a persisted Transaction with its order code.
C6_StatusHasTransaction ==
  InFlight = {} =>
    \A i \in 1..Len(orders) :
      orders[i].status # "pending" =>
        \E t \in transactions : t.orderCode = orders[i].orderCode

\* Invocation h performs an order update in this step.
Updating(h) == hs[h].pc \in {"updateOrder", "hookUpdate"} /\ hs'[h] # hs[h]

\* C7: a step that takes an order from pending to completed is taken for a
\* 1796 event whose StatusId is A, and a step that takes an order from pending
\* to failed is taken for a 1798 event or an event whose StatusId is F.
C7_TransitionCauses ==
  [][\A i \in 1..Len(orders) :
       orders[i].status = "pending" =>
         /\ orders'[i].status = "completed" =>
              \E h \in Handlers :
                /\ Updating(h)
                /\ hs[h].d.body.EventTypeId = 1796
                /\ hs[h].d.body.StatusId = "A"
         /\ orders'[i].status = "failed" =>
              \E h \in Handlers :
                /\ Updating(h)
                /\ (hs[h].d.body.EventTypeId = 1798 \/ hs[h].d.body.StatusId = "F")]_vars

\* Invocation h handles a 1796 event with StatusId A whose order was pending
\* when the request arrived.
SuccessCase(h) ==
  /\ hs[h].d.body.parses
  /\ hs[h].d.body.EventTypeId = 1796
  /\ hs[h].d.body.StatusId = "A"
  /\ StatusIn(hs[h].orders0, EventOrderCode(hs[h].d)) = "pending"

\* The order of the event of invocation h is completed and a Transaction with
\* the event's transactionId, the order code as a string and statusId A exists.
SuccessPost(h) ==
  /\ StatusIn(orders, EventOrderCode(hs[h].d)) = "completed"
  /\ \E t \in transactions :
       /\ t.transactionId = String(hs[h].d.body.TransactionId)
       /\ t.orderCode = EventOrderCode(hs[h].d)
       /\ t.statusId = "A"

\* C8 as stated: when a validly signed 1796 delivery with StatusId A, whose
\* order was pending, is acknowledged with success, the order is completed and
\* the Transaction exists.
C8_AnyAcknowledgement ==
  \A h \in Handlers : Acked(h) /\ SuccessCase(h) => SuccessPost(h)

\* C8: with requests handled one at a time, when a validly signed 1796
\* delivery with StatusId A, whose order was pending and whose delivery
\* identifier (if any) no Transaction bore when it arrived, is acknowledged
\* with success, the order is completed and a Transaction with the event's
\* transactionId, the order code as a string and statusId A exists.
C8_SuccessPath ==
  \A h \in Handlers : Acked(h) /\ SuccessCase(h) /\ ~Seen0(h) => SuccessPost(h)

\* Witness of C8: such a delivery, carrying a fresh delivery identifier, is
\* about to be acknowledged, the order completed and the Transaction stored.
C8_Witness ==
  \E h \in Handlers :
    /\ Acked(h) /\ SuccessCase(h) /\ ~Seen0(h)
    /\ hs[h].d.deliveryId # NoDeliveryId
    /\ hs[h].nTrans = 1
    /\ SuccessPost(h)

\* Invocation h handles a 1798 event.
FailureCase(h) == hs[h].d.body.parses /\ hs[h].d.body.EventTypeId = 1798

\* The order of the event of invocation h, if there is one, is failed.
OrderFailedIfAny(h) ==
  StatusIn(orders, EventOrderCode(hs[h].d)) \in {"none", "failed"}

\* C9 as stated: when a validly signed 1798 delivery is acknowledged with
\* success, every Transaction created for it has statusId F and the
\* referenced order, if it exists, is failed.
C9_AnyAcknowledgement ==
  \A h \in Handlers :
    Acked(h) /\ FailureCase(h) =>
      /\ \A t \in transactions \ hs[h].transactions0 : t.statusId = "F"
      /\ OrderFailedIfAny(h)

\* C9: with requests handled one at a time, when a validly signed 1798
\* delivery whose delivery identifier (if any) no Transaction bore when it
\* arrived is acknowledged with success, a Transaction was created for it, it
\* has statusId F whatever StatusId the payload carried, and the referenced
\* order, if it exists, is failed.
C9_FailurePath ==
  \A h \in Handlers :
    Acked(h) /\ FailureCase(h) /\ ~Seen0(h) =>
      /\ \E t \in transactions \ hs[h].transactions0 :
           t.transactionId = String(hs[h].d.body.TransactionId)
      /\ \A t \in transactions \ hs[h].transactions0 : t.statusId = "F"
      /\ OrderFailedIfAny(h)

\* Witness of C9: a 1798 delivery whose payload carries StatusId A, for an
\* order that was pending, is about to be acknowledged; its Transaction has
\* statusId F and the order is failed.
C9_Witness ==
  \E h \in Handlers :
    /\ Acked(h) /\ FailureCase(h) /\ ~Seen0(h)
    /\ hs[h].d.body.StatusId = "A"
    /\ StatusIn(hs[h].orders0, EventOrderCode(hs[h].d)) = "pending"
    /\ StatusIn(orders, EventOrderCode(hs[h].d)) = "failed"
    /\ \E t \in transactions \ hs[h].transactions0 : t.statusId = "F"

\* Invocation h handles a payment event whose order code matched no order
\* when the request arrived.
UnresolvableCase(h) ==
  /\ hs[h].pc # "idle"
  /\ IsPayment(hs[h].d)
  /\ StatusIn(hs[h].orders0, EventOrderCode(hs[h].d)) = "none"

\* Invocation h has created exactly one Transaction, the one of its event.
CreatedOne(h) ==
  /\ TransactionData(hs[h].d) \notin hs[h].transactions0
  /\ transactions = hs[h].transactions0 \cup {TransactionData(hs[h].d)}

Recordable(h) ==
  /\ TransactionValid(TransactionData(hs[h].d))
  /\ \A t \in hs[h].transactions0 :
       t.transactionId # TransactionData(hs[h].d).transactionId

SignatureOK(d, key) ==
  IF d.signature256 # NoHeader
    THEN d.signature256 = CreateHmacSignature(d.body, key, "sha256")
    ELSE d.signature # NoHeader /\ d.signature = CreateHmacSignature(d.body, key, "sha1")

\* Invocation h, having read the settings, takes its next step.
Admitting(h) == hs[h].pc = "settings" /\ hs'[h] # hs[h]

\* C11: with the webhook key configured and the settings read, the step that
\* validates the signature of a delivery whose signature does not validate
\* leads straight to the 401 response "Invalid signature": the idempotency
\* lookup is not performed, no order is looked up or modified and no
\* Transaction is created.
C11_InvalidSignatureRejected ==
  [][\A h \in Handlers :
       /\ Admitting(h)
       /\ settings.webhookKey # NoKey
       /\ ~SignatureOK(hs[h].d, settings.webhookKey)
       /\ hs'[h].msg # "StoreError"
       => /\ hs'[h].pc = "return"
          /\ hs'[h].status = 401
          /\ hs'[h].msg = "Invalid signature"
          /\ orders' = hs[h].orders0 /\ transactions' = hs[h].transactions0
          /\ UNCHANGED <<settings, orders, transactions>>]_vars

\* Witness of C11: a delivery with a Viva-Delivery-Id that a Transaction
\* bears and with a wrong SHA-256 signature is about to be answered 401, the
\* store being as it was.
C11_Witness ==
  \E h \in Handlers :
    /\ Returning(h) /\ hs[h].status = 401
    /\ settings.webhookKey # NoKey
    /\ ~SignatureOK(hs[h].d, settings.webhookKey)
    /\ hs[h].d.signature256 # NoHeader
    /\ Seen0(h)
    /\ orders = hs[h].orders0 /\ transactions = hs[h].transactions0 /\ transactions # {}

\* C12: with a secret configured, whenever a SHA-256 signature value is
\* supplied the validator accepts exactly when that value is the SHA-256 HMAC
\* of the body, whatever the SHA-1 header holds.
C12_NoDowngrade ==
  call.result # "none" /\ call.secret # NoKey /\ call.d.signature256 # NoHeader =>
    (call.result = "accept") =
      (call.d.signature256 = CreateHmacSignature(call.d.body, call.secret, "sha256"))

\* Witness of C12: a delivery with a wrong SHA-256 value and a right SHA-1
\* value was rejected.
C12_Witness ==
  /\ call.result = "reject"
  /\ call.secret # NoKey
  /\ call.d.signature256 # NoHeader
  /\ call.d.signature256 # CreateHmacSignature(call.d.body, call.secret, "sha256")
  /\ call.d.signature = CreateHmacSignature(call.d.body, call.secret, "sha1")

\* The validator was used with no secret, or with a secret on a delivery
\* with neither signature header.
UnsignedCase ==
  /\ call.result # "none"
  /\ \/ call.secret = NoKey
     \/ call.d.signature256 = NoHeader /\ call.d.signature = NoHeader

\* C13: when no secret is configured, or neither signature header is present,
\* the validator accepts if and only if the allowUnsigned option was passed
\* as true.
C13_UnsignedOnlyOnOption ==
  UnsignedCase => ((call.result = "accept") = (call.option = "true"))

\* The latest exchange is a createOrderHandler one.
Created == resp.op = "create"

\* C18: a createOrderHandler invocation that directly follows one which
\* obtained a token and created its session issues no authorization request.
C18_SharedToken ==
  [][resp.op = "create" /\ resp.status = 200 /\ resp'.op = "create" =>
       \A i \in 1..Len(resp'.ops) : resp'.ops[i] # "connect/token"]_vars

\* C19: a createOrderHandler request from a resolved caller with an amount
\* that is missing, zero or negative is answered 400 with no authorization
\* request, no gateway request and no PaymentOrder created.
C19_InvalidAmount ==
  [][resp' # resp /\ resp'.op = "create" /\ resp'.req.userId /\ resp'.req.amount <= 0 =>
       /\ resp'.status = 400
       /\ resp'.msg = "Invalid amount"
       /\ \A i \in 1..Len(resp'.ops) :
            resp'.ops[i] \notin {"connect/token", "checkout/v2/orders", "create"}
       /\ orders' = orders]_vars

\* Witness of C19: a resolved caller's request with a negative amount was
\* answered 400 while a session created earlier exists.
C19_Witness ==
  /\ Created /\ resp.req.userId /\ resp.req.amount < 0
  /\ resp.status = 400
  /\ Len(orders) = 1

\* C20: a createOrderHandler request with no resolved caller is answered 401
\* whatever its body and the configuration, with the body not read, no store
\* access, no outbound call and no PaymentOrder created.
C20_Unauthenticated ==
  [][resp' # resp /\ resp'.op = "create" /\ ~resp'.req.userId =>
       /\ resp'.status = 401
       /\ resp'.msg = "Unauthorized"
       /\ resp'.ops = <<>>
       /\ orders' = orders]_vars

\* Witness of C20: a request with no resolved caller and an invalid amount
\* was answered 401 while the settings hold no credentials.
C20_Witness ==
  /\ Created /\ ~resp.req.userId /\ resp.req.amount <= 0
  /\ resp.status = 401
  /\ ~Configured(settings)

\* The latest step answered a createOrderHandler request.
Answers == resp' # resp /\ resp'.op = "create"

\* C21: createOrderHandler answers with success exactly when it has stored
\* one new PaymentOrder, whose status is pending and whose order code and
\* checkout URL are those of the response; with any other response the
\* PaymentOrders are unchanged.
C21_OrderIffSuccess ==
  [][Answers =>
       IF resp'.status = 200
         THEN /\ Len(orders') = Len(orders) + 1
              /\ SubSeq(orders', 1, Len(orders)) = orders
              /\ orders'[Len(orders')].status = "pending"
              /\ orders'[Len(orders')].orderCode = resp'.orderCode
              /\ orders'[Len(orders')].checkoutUrl = resp'.checkoutUrl
              /\ orders'[Len(orders')].amount = resp'.req.amount
         ELSE /\ resp'.status \in {400, 401, 500}
              /\ orders' = orders]_vars

\* Witness of C21: a second session was created and the response carries the
\* order code and the checkout URL of the second PaymentOrder.
C21_Witness ==
  /\ Created /\ resp.status = 200
  /\ Len(orders) = 2
  /\ orders[2].status = "pending"
  /\ orders[2].orderCode = resp.orderCode
  /\ orders[2].checkoutUrl = resp.checkoutUrl

\* The operations of the createOrderHandler invocation answered by r.
OpsOf(r) == {r.ops[i] : i \in 1..Len(r.ops)}

\* The settings lack a client identifier, a client secret or a source code.
LacksCredentials ==
  settings.clientId = NoKey \/ settings.clientSecret = NoKey \/ settings.sourceCode = NoKey

\* C22: a createOrderHandler request with a resolved caller and a valid
\* amount, for which findGlobal returned settings lacking a client
\* identifier, a client secret or a source code, is answered 500 "Viva Wallet
\* is not configured" with no authorization request, no gateway request and
\* no PaymentOrder created.
C22_NotConfigured ==
  [][/\ Answers
     /\ resp'.req.userId /\ resp'.req.amount > 0
     /\ "findGlobal" \in OpsOf(resp')
     /\ LacksCredentials
     => /\ resp'.status = 500
        /\ resp'.msg = "Viva Wallet is not configured"
        /\ OpsOf(resp') \cap {"connect/token", "checkout/v2/orders", "create"} = {}
        /\ orders' = orders]_vars

\* Witness of C22: the settings lack the source code only, and a valid
\* request was answered with the configuration error.
C22_Witness ==
  /\ Created /\ resp.req.userId /\ resp.req.amount > 0
  /\ settings.clientId # NoKey /\ settings.clientSecret # NoKey
  /\ settings.sourceCode = NoKey
  /\ resp.status = 500 /\ resp.msg = "Viva Wallet is not configured"

\* The order endpoint answered the latest createOrderHandler invocation with
\* a JSON body.
OrderAnswered == Created /\ "checkout/v2/orders" \in OpsOf(resp) /\ resp.gw.json

\* The three conditions of success on the answer of the order endpoint.
AnswerIsSuccess ==
  HttpOk(resp.gw.status) /\ resp.gw.errorCode = 0 /\ resp.gw.orderCode # NoHeader

\* createPaymentOrder returned: the invocation went on to payload.create.
Returned == "create" \in OpsOf(resp)

C24_OrderCodeExact ==
  Created /\ resp.status = 200 =>
    /\ resp.orderCode = StringOfNumber(resp.gw.orderCode)
    /\ orders[Len(orders)].orderCode = StringOfNumber(resp.gw.orderCode)

\* C25: a verifyWebhookHandler call that finds no stored key stores a key and
\* returns it, changing nothing else in the settings; a call that finds a
\* stored key returns that key and leaves the settings unchanged (calls in
\* which findGlobal throws aside).
C25_VerificationKey ==
  [][/\ resp'.op = "verify"
     /\ resp' # resp \/ settings' # settings
     /\ resp'.msg # "StoreError"
     => /\ resp'.status = 200
        /\ IF settings.webhookKey = NoKey
             THEN /\ resp'.key \in WebhookKeys
                  /\ settings' = [settings EXCEPT !.webhookKey = resp'.key]
             ELSE /\ resp'.key = settings.webhookKey
                  /\ settings' = settings]_vars

\* Invocation h is about to answer a validly signed delivery of an event
\* whose type is neither payment-created nor payment-failed, no store
\* operation having thrown.
OtherEventCase(h) ==
  /\ Returning(h)
  /\ hs[h].d.body.parses /\ hs[h].d.body.EventTypeId \notin {1796, 1798}
  /\ settings.webhookKey # NoKey
  /\ SignatureOK(hs[h].d, settings.webhookKey)
  /\ hs[h].msg # "StoreError"

\* C26: a validly signed delivery of an event whose type is neither
\* payment-created nor payment-failed is acknowledged with success, and the
\* PaymentOrders are as they were when it arrived.
C26_OtherEventNoEffect ==
  \A h \in Handlers :
    OtherEventCase(h) =>
      /\ hs[h].status = 200
      /\ orders = hs[h].orders0

\* Witness of C26: such a delivery, with no delivery identifier, is about to
\* be acknowledged while a PaymentOrder exists.
C26_Witness ==
  \E h \in Handlers :
    /\ OtherEventCase(h)
    /\ hs[h].d.deliveryId = NoDeliveryId
    /\ hs[h].status = 200
    /\ Len(orders) > 0

\* C27: once a validly signed delivery of an event whose type is neither
\* payment-created nor payment-failed is acknowledged, the store holds a
\* Transaction of that event type.
C27_OtherEventPersisted ==
  \A h \in Handlers :
    OtherEventCase(h) /\ hs[h].status = 200 =>
      \E t \in transactions : t.eventTypeId = hs[h].d.body.EventTypeId

\* C28: every webhookHandler invocation ends with a response of status 200,
\* 401 or 500, whichever of its steps fails.
C28_AlwaysResponds ==
  \A h \in Handlers :
    hs[h].pc # "idle" ~>
      (hs[h].pc = "idle" /\ resp.op = "webhook" /\ resp.status \in {200, 401, 500})

\* Witness of C28: an invocation whose Transaction creation was rejected has
\* answered 500.
C28_Witness ==
  /\ resp.op = "webhook" /\ resp.status = 500 /\ resp.msg = "ValidationError"
  /\ hs[1].pc = "idle"

\* The Transactions among ts for delivery d: those bearing its delivery
\* identifier, or, when it has none, those with its transaction identifier.
TransactionsFor(ts, d) ==
  IF d.deliveryId # NoDeliveryId THEN Bearing(ts, d.deliveryId)
  ELSE {t \in ts : t.transactionId = TransactionData(d).transactionId}

\* The PaymentOrders after one processing of delivery d, in which no store
\* operation fails, of the store holding the orders os and the transactions
\* ts: unchanged when a Transaction bears the delivery identifier or no order
\* has the event's code, else the order has the status of the event.
ProcessedOnce(os, ts, d) ==
  IF d.deliveryId # NoDeliveryId /\ Bearing(ts, d.deliveryId) # {} THEN os
  ELSE IF \E i \in 1..Len(os) : os[i].orderCode = EventOrderCode(d)
    THEN [os EXCEPT ![CHOOSE i \in 1..Len(os) : os[i].orderCode = EventOrderCode(d)].status
                       = HookNewStatus(TransactionData(d))]
  ELSE os

C30_OneStatusWrite ==
  \A h \in Handlers :
    /\ Acked(h) /\ IsPayment(hs[h].d)
    /\ TransactionData(hs[h].d) \in transactions \ hs[h].transactions0
    /\ StatusIn(hs[h].orders0, EventOrderCode(hs[h].d)) # "none"
    => hs[h].nWrites = 1

\* Orders os2 are orders os1 with at most the status fields changed.
SameButStatus(os1, os2) ==
  /\ Len(os2) = Len(os1)
  /\ \A i \in 1..Len(os1) : os2[i] = [os1[i] EXCEPT !.status = os2[i].status]

\* C31: every step keeps every PaymentOrder, with its orderCode, amount,
\* sourceCode and checkoutUrl; a step of webhook processing or of webhook
\* verification adds none, and a step that adds one is a successful session
\* creation, which adds exactly one and changes no other.
C31_OrderFrame ==
  [][/\ Len(orders') >= Len(orders)
     /\ SameButStatus(orders, SubSeq(orders', 1, Len(orders)))
     /\ Len(orders') > Len(orders) =>
          /\ resp'.op = "create" /\ resp'.status = 200
          /\ Len(orders') = Len(orders) + 1
          /\ SubSeq(orders', 1, Len(orders)) = orders]_vars

\* Witness of C31: a delivery is about to be acknowledged after the status of
\* an order was changed; the orders are otherwise as they were at its arrival.
C31_Witness ==
  \E h \in Handlers :
    /\ Acked(h)
    /\ orders # hs[h].orders0
    /\ SameButStatus(hs[h].orders0, orders)
    /\ \E i \in 1..Len(orders) : OrderCodeValid(orders[i].orderCode)

\* C32: every step keeps every Transaction as it is, and an invocation that
\* acknowledges with success a delivery whose delivery identifier (if any) no
\* Transaction bore when it arrived has created exactly one Transaction.
C32_TransactionLifecycle ==
  [][/\ transactions \subseteq transactions'
     /\ \A h \in Handlers :
          Acked(h) /\ hs'[h].pc = "idle" /\ ~Seen0(h) =>
            Cardinality(transactions \ hs[h].transactions0) = 1]_vars

\* C33: every getToken() call that awaits an authorization request
\* eventually returns a value or an error to its caller.
C33_CallsReturn ==
  \A c \in Callers : callers[c].pc = "waiting" ~> callers[c].pc = "done"

\* The checkout domain of the environment of the settings.
CheckoutDomain ==
  IF settings.environment = "demo" THEN "https://demo.vivapayments.com"
  ELSE "https://www.vivapayments.com"

\* C34: the checkout URL of every PaymentOrder, and of every successful
\* response, is the domain of the environment, then "/web/checkout?ref=", then
\* the order code; deriving it adds no outbound call to the authorization and
\* order requests; and the demo URL and the live URL of an order code differ
\* at the domain.
C34_CheckoutUrl ==
  /\ \A i \in 1..Len(orders) :
       /\ orders[i].checkoutUrl = <<CheckoutDomain, "/web/checkout?ref=", orders[i].orderCode>>
       /\ orders[i].checkoutUrl = GetCheckoutUrl(settings.environment, orders[i].orderCode)
       /\ GetCheckoutUrl("demo", orders[i].orderCode) # GetCheckoutUrl("live", orders[i].orderCode)
       /\ GetCheckoutUrl("demo", orders[i].orderCode)[1]
            # GetCheckoutUrl("live", orders[i].orderCode)[1]
  /\ Created /\ resp.status = 200 =>
       /\ resp.checkoutUrl = <<CheckoutDomain, "/web/checkout?ref=", resp.orderCode>>
       /\ resp.ops = <<"req.json", "findGlobal", "connect/token", "checkout/v2/orders",
                       "create">>

\* Witness of C34: in the live environment a second session was created and
\* its response carries the live URL of its order code.
C34_Witness ==
  /\ Created /\ resp.status = 200
  /\ settings.environment = "live"
  /\ Len(orders) = 2
  /\ resp.checkoutUrl = <<"https://www.vivapayments.com", "/web/checkout?ref=", orders[2].orderCode>>

\* The authorization requests in flight.
PendingRequests == {p \in 1..Len(promises) : promises[p].state = "pending"}

\* C35: at most one authorization request is in flight at any time.
C35_OneRequestInFlight == Cardinality(PendingRequests) <= 1

\* C36: a token gets cached only by the answer to an authorization request
\* that was started after the latest clearToken() call: the answer to a
\* request that was in flight when clearToken() was called leaves the token
\* and the expiry null.
C36_NoRepopulation ==
  [][\A p \in 1..Len(promises) :
       Settles(p) /\ promises[p].clears < clears =>
         token' = Null /\ tokenExpiry' = Null]_vars

\* C37: when a delivery is about to be answered with a processing failure
\* (500), every PaymentOrder has the status it had when the delivery arrived.
C37_UnchangedOnError ==
  \A h \in Handlers :
    Returning(h) /\ hs[h].status = 500 =>
      /\ Len(orders) = Len(hs[h].orders0)
      /\ \A i \in 1..Len(orders) : orders[i].status = hs[h].orders0[i].status

\* C38: once no verifyWebhookHandler invocation is in flight, every
\* invocation that answered with a key answered with the key the settings
\* hold.
C38_OneVerificationKey ==
  (\A v \in Verifiers : vs[v].pc # "update") =>
    \A v \in Verifiers :
      vs[v].pc = "done" /\ vs[v].status = 200 => vs[v].key = settings.webhookKey

\* C39: with a secret configured, a validator handed a delivery with a
\* signature header never throws and accepts exactly when the header it
\* checks (the SHA-256 one if present, else the SHA-1 one) is the HMAC of the
\* body, whether or not unsigned deliveries are allowed.
C39_SignatureAlwaysChecked ==
  /\ call.result # "none"
  /\ call.secret # NoKey
  /\ call.d.signature256 # NoHeader \/ call.d.signature # NoHeader
  => /\ call.result \in {"accept", "reject"}
     /\ (call.result = "accept") = SignatureOK(call.d, call.secret)

\* Witness of C39: a validator with a secret that allows unsigned deliveries
\* rejected a delivery whose SHA-256 header holds a digest cut short.
C39_Witness ==
  /\ call.result = "reject"
  /\ call.secret # NoKey
  /\ AllowUnsignedWith(call.option, nodeEnv)
  /\ call.d.signature256 = TruncatedSignature("sha256")

\* The store is as it was when the delivery of invocation h arrived.
StoreUntouched(h) ==
  orders = hs[h].orders0 /\ transactions = hs[h].transactions0

\* Invocation h is about to answer with the given status and message, the
\* store being as it was when its delivery arrived.
AnswersUntouched(h, status, msg) ==
  hs[h].status = status /\ hs[h].msg = msg /\ StoreUntouched(h)

\* C40: an invocation in which no store operation threw answers by the first
\* of these that applies: no webhook key stored, 500; signature not valid,
\* 401; delivery identifier borne by a Transaction, success with the store
\* untouched, whatever the body; body unparsable, 500.
C40_CheckOrder ==
  \A h \in Handlers :
    Returning(h) /\ hs[h].msg # "StoreError" =>
      IF settings.webhookKey = NoKey
        THEN AnswersUntouched(h, 500, "Webhook not configured")
      ELSE IF ~SignatureOK(hs[h].d, settings.webhookKey)
        THEN AnswersUntouched(h, 401, "Invalid signature")
      ELSE IF Seen0(h)
        THEN AnswersUntouched(h, 200, "Already processed")
      ELSE ~hs[h].d.body.parses => AnswersUntouched(h, 500, "SyntaxError")

\* Witness of C40: a validly signed delivery with an unparsable body, whose
\* delivery identifier the Transaction of a payment event bears, is about to
\* be acknowledged as already processed.
C40_Witness ==
  \E h \in Handlers :
    /\ Acked(h) /\ Seen0(h)
    /\ ~hs[h].d.body.parses
    /\ SignatureOK(hs[h].d, settings.webhookKey)
    /\ hs[h].msg = "Already processed"
    /\ StoreUntouched(h)

====
